---------------------------- MODULE Spec2Model ----------------------------
(***************************************************************************)
(* EMA signal bot (src/ema_signal_bot.py): the persisted state document,   *)
(* the EMA computation, the crossover decision of evaluate_pair, the       *)
(* monitoring loop thread and the Telegram command handlers that share the *)
(* global `state` dictionary and the state file with it.                   *)
(*                                                                         *)
(* Python values are modelled as follows.  A dict is a function; the       *)
(* global `state` dict is a function whose domain is its set of keys.      *)
(* None is the string "None" in memory and "null" in a JSON document.      *)
(* Prices are integers and an EMA value is an exact fraction [num, den]    *)
(* (the code uses binary floating point; rounding is not modelled).        *)
(***************************************************************************)
EXTENDS Integers, Sequences, FiniteSets, TLC

(* ------------------------------ bounds -------------------------------- *)
\* longest price series the provider returns
MaxBars == 3

(* ------------------------- program constants -------------------------- *)
TREND_EMA == 32
ENTRY_EXIT_EMA == 14
TIMEFRAME == "15min"
PAIRS == <<"EURUSD">>
DEFAULT_CHAT_ID_KEY == "default_chat_id"

(* --------------------------- input universes -------------------------- *)
\* instruments the /add and /remove commands are given
Pairs == {"EURUSD", "GBPUSD"}
\* chats that send /start
ChatIds == {"chat1"}
\* arguments given to /setema (with period 1 an EMA equals the close; 0 is
\* a period pandas rejects)
EmaCommands == {<<"trend", 1>>, <<"entry", 0>>}
\* closing prices of the bars the provider returns
Prices == {0, 3, 30, 33}
\* a key of the stored document the program does not know
ExtraKey == "note"

(* ------------------------------ dicts --------------------------------- *)
EmptyDict == [k \in {} |-> FALSE]

\* dict.setdefault(k, v): the dict with k bound to v unless k is present
SetDefault(d, k, v) ==
    IF k \in DOMAIN d THEN d
    ELSE [x \in DOMAIN d \cup {k} |-> IF x = k THEN v ELSE d[x]]

\* d[k] = v
Put(d, k, v) == [x \in DOMAIN d \cup {k} |-> IF x = k THEN v ELSE d[x]]

\* dict.pop(k, None)
Pop(d, k) == [x \in DOMAIN d \ {k} |-> d[x]]

\* `x in list`
InList(x, l) == \E i \in 1..Len(l) : l[i] = x

\* the set of the members of a list
Members(l) == {l[i] : i \in 1..Len(l)}

\* list.remove(x): the list without the first occurrence of x
RECURSIVE ListRemove(_, _)
ListRemove(l, x) ==
    IF l = << >> THEN << >>
    ELSE IF Head(l) = x THEN Tail(l)
    ELSE <<Head(l)>> \o ListRemove(Tail(l), x)

(* ------------------------- persisted state ---------------------------- *)
\* {"in_trade": False, "side": None}
NewPairState == [in_trade |-> FALSE, side |-> "None"]

default_state ==
    [running |-> FALSE,
     pairs |-> PAIRS,
     trend_ema |-> TREND_EMA,
     entry_exit_ema |-> ENTRY_EXIT_EMA,
     timeframe |-> TIMEFRAME,
     per_pair |-> EmptyDict,
     default_chat_id |-> "None"]

\* one value on its way to the JSON text: None is written as null
JsonEncodeValue(k, v) ==
    IF k = "per_pair"
    THEN [p \in DOMAIN v |->
            [in_trade |-> v[p].in_trade,
             side |-> IF v[p].side = "None" THEN "null" ELSE v[p].side]]
    ELSE IF k = DEFAULT_CHAT_ID_KEY
    THEN (IF v = "None" THEN "null" ELSE v)
    ELSE v

\* one value read back from the JSON text: null is read as None
JsonDecodeValue(k, v) ==
    IF k = "per_pair"
    THEN [p \in DOMAIN v |->
            [in_trade |-> v[p].in_trade,
             side |-> IF v[p].side = "null" THEN "None" ELSE v[p].side]]
    ELSE IF k = DEFAULT_CHAT_ID_KEY
    THEN (IF v = "null" THEN "None" ELSE v)
    ELSE v

\* a dump that writes the fields the program knows and no others
json_dump_known(s) ==
    [k \in DOMAIN s \cap DOMAIN default_state |-> JsonEncodeValue(k, s[k])]

\* json.dump(s, f): every key of the dict is written
json_dump(s) == [k \in DOMAIN s |-> JsonEncodeValue(k, s[k])]

\* json.load(f)
json_load(doc) == [k \in DOMAIN doc |-> JsonDecodeValue(k, doc[k])]

\* the state file: absent, a complete document, or what a write that did
\* not finish leaves (empty or cut short: "truncated"; the tail of an
\* older, longer text after a newer one: "garbled").  residue: another
\* handle opened before this text was written is still open.
AbsentFile == [status |-> "absent", doc |-> EmptyDict, residue |-> FALSE]
CompleteFile(doc) == [status |-> "complete", doc |-> doc, residue |-> FALSE]

\* os.path.exists(STATE_FILE)
Exists(f) == f.status # "absent"

\* json.load raises on a text that is not one complete document
LoadRaises(f) == f.status \in {"truncated", "garbled"}

\* a load in which the compiled-in defaults win over the stored values
load_state_defaults_win(f) ==
    IF Exists(f)
    THEN LET s == json_load(f.doc)
         IN  [k \in DOMAIN s \cup DOMAIN default_state |->
                 IF k \in DOMAIN default_state THEN default_state[k] ELSE s[k]]
    ELSE [default_state EXCEPT
             !.per_pair = [p \in {PAIRS[i] : i \in 1..Len(PAIRS)} |-> NewPairState]]

\* load_state(): the value it returns when it does not raise
load_state(f) ==
    IF Exists(f)
    THEN LET s == json_load(f.doc)
         IN  [k \in DOMAIN s \cup DOMAIN default_state |->
                 IF k \in DOMAIN s THEN s[k] ELSE default_state[k]]
    ELSE LET s == default_state
             RECURSIVE Fill(_, _)
             Fill(m, i) ==
                 IF i > Len(s.pairs) THEN m
                 ELSE Fill(SetDefault(m, s.pairs[i], NewPairState), i + 1)
         IN  [s EXCEPT !.per_pair = Fill(s.per_pair, 1)]

\* the keys of default_state whose values are mutable objects: a list and
\* a dict
MutableKeys == {"pairs", "per_pair"}

\* the keys under which the dict load_state returns holds the very objects
\* of default_state: line 59 binds s[k] to default_state[k] for a key the
\* document lacks, and the copy of line 61 is shallow
LoadAliases(f) ==
    IF Exists(f) THEN MutableKeys \ DOMAIN f.doc ELSE MutableKeys

\* open(STATE_FILE, "w"): the file exists and is empty
OpenForWrite(f) == [status |-> "truncated", doc |-> EmptyDict, residue |-> FALSE]


\* what a json.dump of doc leaves in file f when it finishes.  otherOpen:
\* another thread holds a handle it opened earlier and has not written yet.
\* A text written over a different one (f.residue) may leave the tail of
\* the older text behind it.
Written(f, doc, otherOpen) ==
    IF f.status = "complete" /\ f.residue /\ f.doc # doc
    THEN {CompleteFile(doc),
          [status |-> "garbled", doc |-> EmptyDict, residue |-> FALSE]}
    ELSE {[status |-> "complete", doc |-> doc, residue |-> otherOpen]}

\* save_state(s) with no other thread and no crash: open, dump, close
save_state(f, s) ==
    CHOOSE g \in Written(OpenForWrite(f), json_dump(s), FALSE) : TRUE

(* ------------------------------- EMA ---------------------------------- *)
\* an average with the weight k = 1/period in place of 2/(period+1)
RECURSIVE add_ema_wilder(_, _)
add_ema_wilder(closes, period) ==
    IF Len(closes) = 0 THEN << >>
    ELSE IF Len(closes) = 1 THEN <<[num |-> closes[1], den |-> 1]>>
    ELSE LET before == add_ema_wilder(SubSeq(closes, 1, Len(closes) - 1), period)
             last == before[Len(before)]
         IN  Append(before,
                    [num |-> closes[Len(closes)] * last.den
                              + (period - 1) * last.num,
                     den |-> period * last.den])

\* df[col].ewm(span=period, adjust=False).mean(): value[0] = close[0],
\* value[i] = k*close[i] + (1-k)*value[i-1] with k = 2/(period+1), as exact
\* fractions num/den with den = (period+1)^i
RECURSIVE add_ema(_, _)
add_ema(closes, period) ==
    IF Len(closes) = 0 THEN << >>
    ELSE IF Len(closes) = 1 THEN <<[num |-> closes[1], den |-> 1]>>
    ELSE LET before == add_ema(SubSeq(closes, 1, Len(closes) - 1), period)
             last == before[Len(before)]
         IN  Append(before,
                    [num |-> 2 * closes[Len(closes)] * last.den
                              + (period - 1) * last.num,
                     den |-> (period + 1) * last.den])

\* pandas rejects a span below 1 (ValueError)
AddEmaRaises(period) == period < 1

\* price x against EMA value e: -1 below, 0 equal, 1 above (e.den > 0)
Cmp(x, e) ==
    IF x * e.den > e.num THEN 1 ELSE IF x * e.den < e.num THEN -1 ELSE 0

(* -------------------------- crossover rules --------------------------- *)
\* the rules with the trend tests not strict (>=, <=)
CrossoverLoose(ps, ct, pe, ce) ==
    IF ct >= 0
    THEN IF ~ps.in_trade
         THEN (IF pe <= 0 /\ ce > 0 THEN "BUY NOW" ELSE "none")
         ELSE (IF ps.side = "BUY" /\ pe >= 0 /\ ce < 0
               THEN "EXIT BUY" ELSE "none")
    ELSE IF ~ps.in_trade
         THEN (IF pe >= 0 /\ ce < 0 THEN "SELL NOW" ELSE "none")
         ELSE (IF ps.side = "SELL" /\ pe <= 0 /\ ce > 0
               THEN "EXIT SELL" ELSE "none")

\* the rules with the entries not guarded by in_trade
CrossoverNoGuard(ps, ct, pe, ce) ==
    IF ct > 0
    THEN IF pe <= 0 /\ ce > 0 THEN "BUY NOW"
         ELSE IF ps.in_trade /\ ps.side = "BUY" /\ pe >= 0 /\ ce < 0
         THEN "EXIT BUY" ELSE "none"
    ELSE IF ct < 0
    THEN IF pe >= 0 /\ ce < 0 THEN "SELL NOW"
         ELSE IF ps.in_trade /\ ps.side = "SELL" /\ pe <= 0 /\ ce > 0
         THEN "EXIT SELL" ELSE "none"
    ELSE "none"

\* the rules with the exits not guarded by in_trade and side
CrossoverExitAnyway(ps, ct, pe, ce) ==
    IF ct > 0
    THEN IF ~ps.in_trade /\ pe <= 0 /\ ce > 0 THEN "BUY NOW"
         ELSE IF pe >= 0 /\ ce < 0 THEN "EXIT BUY" ELSE "none"
    ELSE IF ct < 0
    THEN IF ~ps.in_trade /\ pe >= 0 /\ ce < 0 THEN "SELL NOW"
         ELSE IF pe <= 0 /\ ce > 0 THEN "EXIT SELL" ELSE "none"
    ELSE "none"

\* the branch of evaluate_pair that is taken, named by its alert, from
\* ct = close against TrendEMA, pe = previous close against EntryEMA,
\* ce = close against EntryEMA
Crossover(ps, ct, pe, ce) ==
    IF ct > 0
    THEN IF ~ps.in_trade
         THEN (IF pe <= 0 /\ ce > 0 THEN "BUY NOW" ELSE "none")
         ELSE (IF ps.side = "BUY" /\ pe >= 0 /\ ce < 0
               THEN "EXIT BUY" ELSE "none")
    ELSE IF ct < 0
    THEN IF ~ps.in_trade
         THEN (IF pe >= 0 /\ ce < 0 THEN "SELL NOW" ELSE "none")
         ELSE (IF ps.side = "SELL" /\ pe <= 0 /\ ce > 0
               THEN "EXIT SELL" ELSE "none")
    ELSE "none"

\* the value the taken branch assigns to pair_state["in_trade"]
InTradeOf(todo) == todo \in {"BUY NOW", "SELL NOW"}

\* the value the taken branch assigns to pair_state["side"]
SideOf(todo) ==
    IF todo = "BUY NOW" THEN "BUY"
    ELSE IF todo = "SELL NOW" THEN "SELL"
    ELSE "None"

(* --------------------------- provider --------------------------------- *)
RECURSIVE SeqsOfLen(_)
SeqsOfLen(n) ==
    IF n = 0 THEN {<< >>}
    ELSE {Append(s, x) : s \in SeqsOfLen(n - 1), x \in Prices}

\* the non-empty frames fetch_ohlc_fx can return, as their closes in time
\* order
Frames == UNION {SeqsOfLen(n) : n \in 1..MaxBars}

\* the other outcomes of fetch_ohlc_fx: it raises, returns None, or returns
\* an empty frame
NoData == {"raise", "None", "empty"}

\* a reading in which a frame of one bar has no previous close (0)
ReadingNoPrev(closes, tp, ep) ==
    LET n == Len(closes)
        TrendEMA == add_ema(closes, tp)
        EntryEMA == add_ema(closes, ep)
        close == closes[n]
        prev == IF n >= 2 THEN closes[n - 1] ELSE 0
    IN  [ct |-> Cmp(close, TrendEMA[n]),
         pe |-> Cmp(prev, EntryEMA[n]),
         ce |-> Cmp(close, EntryEMA[n]),
         single |-> (n = 1)]

\* what evaluate_pair (lines 129-135) takes from a frame under the periods
\* tp and ep: close against TrendEMA, previous close against EntryEMA,
\* close against EntryEMA, all at the latest bar, and whether the frame has
\* a single bar (then prev is latest)
Reading(closes, tp, ep) ==
    LET n == Len(closes)
        TrendEMA == add_ema(closes, tp)
        EntryEMA == add_ema(closes, ep)
        close == closes[n]
        prev == IF n >= 2 THEN closes[n - 1] ELSE close
    IN  [ct |-> Cmp(close, TrendEMA[n]),
         pe |-> Cmp(prev, EntryEMA[n]),
         ce |-> Cmp(close, EntryEMA[n]),
         single |-> (n = 1)]

\* the periods state["trend_ema"] and state["entry_exit_ema"] can hold
Periods == {TREND_EMA, ENTRY_EXIT_EMA} \cup {c[2] : c \in EmaCommands}

\* the readings of all frames, by the two periods (computed once)
Readings ==
    [tp \in {p \in Periods : ~AddEmaRaises(p)},
     ep \in {p \in Periods : ~AddEmaRaises(p)} |->
        {Reading(closes, tp, ep) : closes \in Frames}]

(* ------------------------------ state --------------------------------- *)
VARIABLES
    state,      \* the module-level `state` dict shared by all threads
    file,       \* the state file STATE_FILE
    proc,       \* the process: "up", "down" (crashed), "failed" (cannot start)
    mon,        \* the monitoring thread: position and locals
    hpc,        \* the dispatcher thread: "idle", or "dump" inside save_state
    ev,         \* record of the evaluate_pair call in progress or just ended
    attempted,  \* the pairs evaluate_pair was called on in this cycle
    cyc,        \* "none" before the first cycle, "clean" while the watchlist
                \* is as it was when the cycle began, else "touched"
    cycFailed,  \* a call of evaluate_pair in this cycle ended without saving
    crashPoint, \* where the last crash hit: "none", "in_save", "elsewhere"
    stored,     \* StoreSpec: the state file before the round trip
    spc,        \* StoreSpec: position of the round trip
    aliased,    \* the keys under which `state` holds the very list or dict
                \* that the module-level default_state holds
    throughout, \* the instruments that have been in state["pairs"] at every
                \* moment of the for loop under way (or of the last one)
    df          \* EmaSpec: the frame add_ema is applied to

vars == <<state, file, proc, mon, hpc, ev, attempted, cyc, cycFailed,
          crashPoint, stored, spc, aliased, throughout, df>>

\* the module-level default_state as it is now: what is done in place to a
\* list or dict that `state` shares with it is done to it
default_state_now ==
    [k \in DOMAIN default_state |->
        IF k \in aliased THEN state[k] ELSE default_state[k]]

\* no frame: add_ema is not being applied on its own
NoFrame == [Close |-> << >>, period |-> 0, EMA |-> << >>, pc |-> "off"]

\* the monitoring thread outside evaluate_pair
MonIdle(pc, idx, chat) ==
    [pc |-> pc, idx |-> idx, chat_id |-> chat, pair |-> "none",
     ps |-> NewPairState, live |-> FALSE, todo |-> "none"]

EvNone ==
    [pair |-> "none", from |-> NewPairState,
     fetch |-> "none", ct |-> 0, pe |-> 0, ce |-> 0, single |-> FALSE,
     alert |-> "none", delivered |-> FALSE, saved |-> FALSE,
     saveRaised |-> FALSE, done |-> FALSE]

\* the state file the program is first started with: none
InitFiles == {AbsentFile}

\* module import (line 70) and main(): state = load_state(), both threads
\* at their start
Init ==
    /\ file \in InitFiles
    /\ state = load_state(file)
    /\ aliased = LoadAliases(file)
    /\ throughout = {}
    /\ df = NoFrame
    /\ proc = "up"
    /\ mon = MonIdle("top", 0, "None")
    /\ hpc = "idle"
    /\ ev = EvNone
    /\ attempted = << >>
    /\ cyc = "none"
    /\ cycFailed = FALSE
    /\ crashPoint = "none"
    /\ stored = AbsentFile
    /\ spc = "off"

(* ------------------------ monitoring thread --------------------------- *)
\* monitoring_loop, lines 176-185: the checks at the top of the while loop
\* and the start of the for loop over the live list state["pairs"]
MonitorTop ==
    /\ proc = "up" /\ mon.pc = "top"
    /\ IF ~state.running \/ state.default_chat_id = "None"
       THEN UNCHANGED <<mon, attempted, cyc, cycFailed, throughout>>
       ELSE /\ mon' = MonIdle("iter", 0, state.default_chat_id)
            /\ attempted' = << >>
            /\ cyc' = "clean"
            /\ cycFailed' = FALSE
            /\ throughout' = Members(state.pairs)
    /\ ev' = EvNone
    /\ UNCHANGED <<state, file, proc, hpc, crashPoint, stored, spc, aliased, df>>

\* where the monitoring thread is after evaluate_pair returned
MonReturned == MonIdle("iter", mon.idx, mon.chat_id)

\* as if only the outer except clause (lines 191-193) caught the exception:
\* the for loop is left
MonRaisedOuter == MonIdle("top", 0, "None")

\* where it is after evaluate_pair raised: the except clause of lines
\* 188-189 is inside the for loop, which goes on with the next pair
MonRaised == MonIdle("iter", mon.idx, mon.chat_id)

\* line 185: the list iterator yields state["pairs"][idx] or ends the loop
\* (then time.sleep and the next turn of the while loop)
MonitorIter ==
    /\ proc = "up" /\ mon.pc = "iter"
    /\ IF mon.idx < Len(state.pairs)
       THEN /\ mon' = [MonIdle("call", mon.idx + 1, mon.chat_id)
                          EXCEPT !.pair = state.pairs[mon.idx + 1]]
            /\ attempted' = Append(attempted, state.pairs[mon.idx + 1])
            /\ ev' = [EvNone EXCEPT !.pair = state.pairs[mon.idx + 1]]
       ELSE /\ mon' = MonIdle("top", 0, "None")
            /\ ev' = EvNone
            /\ UNCHANGED attempted
    /\ UNCHANGED <<state, file, proc, hpc, cyc, cycFailed, crashPoint, stored, spc, aliased, throughout, df>>

\* as if evaluate_pair went on to save_state without data
EvaluateNoDataSaves(kind) ==
    /\ mon' = (IF kind = "raise" THEN MonRaised ELSE MonReturned)
    /\ ev' = [ev EXCEPT !.fetch = kind, !.done = TRUE]
    /\ cycFailed' = TRUE
    /\ file' = (IF kind = "raise" THEN file ELSE save_state(file, state))
    /\ UNCHANGED state

\* evaluate_pair lines 126-128: the provider raised, or gave None or an
\* empty frame
EvaluateNoData(kind) ==
    /\ mon' = (IF kind = "raise" THEN MonRaised ELSE MonReturned)
    /\ ev' = [ev EXCEPT !.fetch = kind, !.done = TRUE]
    /\ cycFailed' = TRUE
    /\ UNCHANGED <<state, file>>

\* evaluate_pair lines 129-130 on a frame with bars: add_ema raises on a
\* period below 1
EvaluateBadPeriod ==
    /\ AddEmaRaises(state.trend_ema) \/ AddEmaRaises(state.entry_exit_ema)
    /\ mon' = MonRaised
    /\ ev' = [ev EXCEPT !.fetch = "ok", !.done = TRUE]
    /\ cycFailed' = TRUE
    /\ UNCHANGED <<state, file>>

\* evaluate_pair lines 129-146 (or 152, 160, 166) on a frame with reading
\* rd: setdefault, the rule that applies and its assignment to in_trade
EvaluateData(rd) ==
    LET pp == SetDefault(state.per_pair, mon.pair, NewPairState)
        todo == Crossover(pp[mon.pair], rd.ct, rd.pe, rd.ce)
        ps == IF todo = "none" THEN pp[mon.pair]
              ELSE [pp[mon.pair] EXCEPT !.in_trade = InTradeOf(todo)]
    IN  /\ state' = [state EXCEPT !.per_pair = Put(pp, mon.pair, ps)]
        /\ mon' = [mon EXCEPT
                      !.pc = IF todo = "none" THEN "store" ELSE "side",
                      !.ps = ps, !.live = TRUE, !.todo = todo]
        /\ ev' = [ev EXCEPT !.fetch = "ok", !.from = pp[mon.pair],
                            !.ct = rd.ct, !.pe = rd.pe, !.ce = rd.ce,
                            !.single = rd.single, !.alert = todo]
        /\ UNCHANGED <<file, cycFailed>>

\* evaluate_pair from the call of fetch_ohlc_fx to the first assignment
MonitorEvaluate ==
    /\ proc = "up" /\ mon.pc = "call"
    /\ \/ \E kind \in NoData : EvaluateNoData(kind)
       \/ EvaluateBadPeriod
       \/ /\ ~AddEmaRaises(state.trend_ema)
          /\ ~AddEmaRaises(state.entry_exit_ema)
          /\ \E rd \in Readings[state.trend_ema, state.entry_exit_ema] :
                EvaluateData(rd)
    /\ UNCHANGED <<proc, hpc, attempted, cyc, crashPoint, stored, spc, aliased, throughout, df>>

\* a write through the local pair_state reaches state["per_pair"] while the
\* dict is still the one stored there
ThroughAlias(ps) ==
    IF mon.live THEN [state EXCEPT !.per_pair = Put(state.per_pair, mon.pair, ps)]
    ELSE state

\* the record of a call once the step after its comparisons is taken: the
\* comparisons are no longer kept
EvForget(e) == [e EXCEPT !.ct = 0, !.pe = 0, !.ce = 0, !.single = FALSE]

\* lines 147, 153, 161, 167: the assignment to pair_state["side"]
MonitorSide ==
    /\ proc = "up" /\ mon.pc = "side"
    /\ LET ps == [mon.ps EXCEPT !.side = SideOf(mon.todo)]
       IN  /\ mon' = [mon EXCEPT !.pc = "alert", !.ps = ps]
           /\ state' = ThroughAlias(ps)
    /\ ev' = EvForget(ev)
    /\ UNCHANGED <<file, proc, hpc, attempted, cyc, cycFailed, crashPoint, stored, spc, aliased, throughout, df>>

\* lines 148, 154, 162, 168 with alert() and send_message(): the message is
\* delivered, or bot.send_message raises and the exception leaves
\* evaluate_pair
MonitorAlert ==
    /\ proc = "up" /\ mon.pc = "alert"
    /\ \/ /\ mon' = [mon EXCEPT !.pc = "store"]
          /\ ev' = [ev EXCEPT !.delivered = TRUE]
          /\ UNCHANGED cycFailed
       \/ /\ mon' = MonRaised
          /\ ev' = [ev EXCEPT !.done = TRUE]
          /\ cycFailed' = TRUE
    /\ UNCHANGED <<state, file, proc, hpc, attempted, cyc, crashPoint,
                   stored, spc, aliased, throughout, df>>

\* line 170 and save_state's open(): state["per_pair"][pair] = pair_state,
\* then the file is opened for writing
MonitorStore ==
    /\ proc = "up" /\ mon.pc = "store"
    /\ state' = [state EXCEPT !.per_pair = Put(state.per_pair, mon.pair, mon.ps)]
    /\ file' = OpenForWrite(file)
    /\ mon' = [mon EXCEPT !.pc = "dump", !.live = TRUE]
    /\ ev' = EvForget(ev)
    /\ UNCHANGED <<proc, hpc, attempted, cyc, cycFailed, crashPoint, stored, spc, aliased, throughout, df>>

\* save_state line 68 in the monitoring thread: json.dump writes the dict as
\* it is now, or the write raises (disk full) and leaves the file cut short
MonitorDump ==
    /\ proc = "up" /\ mon.pc = "dump"
    /\ \/ /\ file' \in Written(file, json_dump(state), hpc = "dump")
          /\ ev' = [ev EXCEPT !.saved = TRUE, !.done = TRUE]
          /\ mon' = MonReturned
          /\ UNCHANGED cycFailed
       \/ /\ file' = file
          /\ ev' = [ev EXCEPT !.saveRaised = TRUE, !.done = TRUE]
          /\ mon' = MonRaised
          /\ cycFailed' = TRUE
    /\ UNCHANGED <<state, proc, hpc, attempted, cyc, crashPoint, stored, spc, aliased, throughout, df>>


(* ------------------------- dispatcher thread -------------------------- *)
\* what every handler that changes `state` ends with: save_state(state),
\* here its open(); the dump is HandlerDump
HandlerSave(s) ==
    /\ state' = s
    /\ file' = OpenForWrite(file)
    /\ hpc' = "dump"

\* a change of the watchlist while a cycle is under way
Touch == IF cyc = "clean" THEN "touched" ELSE cyc

\* start(), the /start command
StartCommand(chat) ==
    /\ proc = "up" /\ hpc = "idle"
    /\ HandlerSave([state EXCEPT !.default_chat_id = chat])
    /\ UNCHANGED <<proc, mon, ev, attempted, cyc, cycFailed, crashPoint,
                   stored, spc, aliased, throughout, df>>

\* button_cb with q.data == "start"
ButtonStart ==
    /\ proc = "up" /\ hpc = "idle"
    /\ HandlerSave([state EXCEPT !.running = TRUE])
    /\ UNCHANGED <<proc, mon, ev, attempted, cyc, cycFailed, crashPoint,
                   stored, spc, aliased, throughout, df>>

\* button_cb with q.data == "stop"
ButtonStop ==
    /\ proc = "up" /\ hpc = "idle"
    /\ HandlerSave([state EXCEPT !.running = FALSE])
    /\ UNCHANGED <<proc, mon, ev, attempted, cyc, cycFailed, crashPoint,
                   stored, spc, aliased, throughout, df>>

\* button_cb with q.data == "status": reads only
ButtonStatus ==
    /\ proc = "up" /\ hpc = "idle"
    /\ UNCHANGED vars

\* add_pair_command with an argument
AddPairCommand(pair) ==
    /\ proc = "up" /\ hpc = "idle"
    /\ IF InList(pair, state.pairs)
       THEN UNCHANGED <<state, file, hpc, cyc>>
       ELSE /\ HandlerSave([state EXCEPT
                   !.pairs = Append(state.pairs, pair),
                   !.per_pair = SetDefault(state.per_pair, pair, NewPairState)])
            /\ cyc' = Touch
    /\ UNCHANGED <<proc, mon, ev, attempted, cycFailed, crashPoint, stored, spc,
                   aliased, throughout, df>>

\* remove_pair_command with an argument; the dict popped from per_pair may
\* be the one the monitoring thread holds as pair_state
RemovePairCommand(pair) ==
    /\ proc = "up" /\ hpc = "idle"
    /\ IF ~InList(pair, state.pairs)
       THEN UNCHANGED <<state, file, hpc, cyc, mon, throughout>>
       ELSE /\ HandlerSave([state EXCEPT
                   !.pairs = ListRemove(state.pairs, pair),
                   !.per_pair = Pop(state.per_pair, pair)])
            /\ cyc' = Touch
            /\ throughout' = IF mon.pc # "top" THEN throughout \ {pair}
                             ELSE throughout
            /\ mon' = IF mon.pair = pair THEN [mon EXCEPT !.live = FALSE]
                      ELSE mon
    /\ UNCHANGED <<proc, ev, attempted, cycFailed, crashPoint, stored, spc, aliased, df>>

\* set_ema_command with two arguments, the second an integer
SetEmaCommand(which, val) ==
    /\ proc = "up" /\ hpc = "idle"
    /\ IF which = "trend"
       THEN HandlerSave([state EXCEPT !.trend_ema = val])
       ELSE IF which \in {"entry", "exit", "entry_exit"}
       THEN HandlerSave([state EXCEPT !.entry_exit_ema = val])
       ELSE UNCHANGED <<state, file, hpc>>
    /\ UNCHANGED <<proc, mon, ev, attempted, cyc, cycFailed, crashPoint,
                   stored, spc, aliased, throughout, df>>

\* save_state line 68 in the dispatcher thread
HandlerDump ==
    /\ proc = "up" /\ hpc = "dump"
    /\ file' \in Written(file, json_dump(state), mon.pc = "dump")
    /\ hpc' = "idle"
    /\ UNCHANGED <<state, proc, mon, ev, attempted, cyc,
                   cycFailed, crashPoint, stored, spc, aliased, throughout, df>>

(* --------------------------- the process ------------------------------ *)
\* the process is killed: memory and both threads are gone, the file stays
Crash ==
    /\ proc = "up"
    /\ proc' = "down"
    /\ crashPoint' = IF mon.pc = "dump" \/ hpc = "dump" THEN "in_save"
                     ELSE "elsewhere"
    /\ state' = default_state
    /\ mon' = MonIdle("top", 0, "None")
    /\ hpc' = "idle"
    /\ ev' = EvNone
    /\ attempted' = << >>
    /\ cyc' = "none"
    /\ cycFailed' = FALSE
    /\ aliased' = {}
    /\ throughout' = {}
    /\ UNCHANGED <<file, stored, spc, df>>

\* the program is started again: line 70 raises on a file json.load cannot
\* read, else both threads start as in main()
Restart ==
    /\ proc = "down"
    /\ IF LoadRaises(file)
       THEN proc' = "failed" /\ UNCHANGED <<state, crashPoint, aliased>>
       ELSE /\ proc' = "up"
            /\ state' = load_state(file)
            /\ aliased' = LoadAliases(file)
            /\ crashPoint' = "none"
    /\ UNCHANGED <<file, mon, hpc, ev, attempted, cyc, cycFailed, stored, spc, throughout, df>>

Next ==
    \/ MonitorTop
    \/ MonitorIter
    \/ MonitorEvaluate
    \/ MonitorSide
    \/ MonitorAlert
    \/ MonitorStore
    \/ MonitorDump
    \/ \E chat \in ChatIds : StartCommand(chat)
    \/ ButtonStart
    \/ ButtonStop
    \/ ButtonStatus
    \/ \E pair \in Pairs : AddPairCommand(pair)
    \/ \E pair \in Pairs : RemovePairCommand(pair)
    \/ \E c \in EmaCommands : SetEmaCommand(c[1], c[2])
    \/ HandlerDump

\* the program from its start, for as long as the process lives
Spec == Init /\ [][Next]_vars

\* the program with its process killed and started again at any time
CrashNext ==
    \/ Next
    \/ Crash
    \/ Restart

CrashSpec == Init /\ [][CrashNext]_vars

(* ----------------------- the store on its own ------------------------- *)
KnownKeys == DOMAIN default_state
AllKeys == KnownKeys \cup {ExtraKey}

\* two stored values for every key, none of them the compiled-in default
StoredValues ==
    {[running |-> TRUE,
      pairs |-> <<"GBPUSD">>,
      trend_ema |-> 50,
      entry_exit_ema |-> 9,
      timeframe |-> "5min",
      per_pair |-> [p \in {"GBPUSD"} |-> [in_trade |-> TRUE, side |-> "SELL"]],
      default_chat_id |-> "chat1",
      note |-> "kept"],
     [running |-> TRUE,
      pairs |-> <<"EURUSD", "GBPUSD">>,
      trend_ema |-> 21,
      entry_exit_ema |-> 5,
      timeframe |-> "60min",
      per_pair |-> [p \in {"EURUSD", "GBPUSD"} |->
                      IF p = "EURUSD" THEN [in_trade |-> FALSE, side |-> "null"]
                      ELSE [in_trade |-> TRUE, side |-> "BUY"]],
      default_chat_id |-> "null",
      note |-> "edited"]}

\* the store contents load_state accepts: no file, or a document with any
\* of the keys
StoreFiles ==
    {AbsentFile} \cup
    {CompleteFile([k \in K |-> v[k]]) : K \in SUBSET AllKeys, v \in StoredValues}

StoreInit ==
    /\ file \in StoreFiles
    /\ stored = file
    /\ state = default_state
    /\ aliased = {}
    /\ throughout = {}
    /\ df = NoFrame
    /\ spc = "start"
    /\ proc = "up"
    /\ mon = MonIdle("top", 0, "None")
    /\ hpc = "idle"
    /\ ev = EvNone
    /\ attempted = << >>
    /\ cyc = "none"
    /\ cycFailed = FALSE
    /\ crashPoint = "none"

\* state = load_state()
StoreLoad ==
    /\ spc = "start"
    /\ ~LoadRaises(file)
    /\ state' = load_state(file)
    /\ aliased' = LoadAliases(file)
    /\ spc' = "loaded"
    /\ UNCHANGED <<file, proc, mon, hpc, ev, attempted, cyc, cycFailed,
                   crashPoint, stored, throughout, df>>

\* save_state(state) right after, nothing changed in between
StoreSave ==
    /\ spc = "loaded"
    /\ file' = save_state(file, state)
    /\ spc' = "saved"
    /\ UNCHANGED <<state, proc, mon, hpc, ev, attempted, cyc, cycFailed,
                   crashPoint, stored, aliased, throughout, df>>

StoreNext == StoreLoad \/ StoreSave

StoreSpec == StoreInit /\ [][StoreNext]_vars


(* ------------------------- add_ema on its own ------------------------- *)
\* the periods add_ema is given
EmaPeriods == {1, 2, ENTRY_EXIT_EMA, TREND_EMA}

\* a frame with bars and no EMA column yet, and a period
EmaInit ==
    /\ df \in {[Close |-> closes, period |-> p, EMA |-> << >>, pc |-> "start"] :
                  closes \in Frames, p \in EmaPeriods}
    /\ file = AbsentFile
    /\ stored = AbsentFile
    /\ state = default_state
    /\ aliased = {}
    /\ throughout = {}
    /\ spc = "off"
    /\ proc = "up"
    /\ mon = MonIdle("top", 0, "None")
    /\ hpc = "idle"
    /\ ev = EvNone
    /\ attempted = << >>
    /\ cyc = "none"
    /\ cycFailed = FALSE
    /\ crashPoint = "none"

\* df = add_ema(df, period): the EMA column is added to the frame
AddEma ==
    /\ df.pc = "start"
    /\ ~AddEmaRaises(df.period)
    /\ df' = [df EXCEPT !.EMA = add_ema(df.Close, df.period), !.pc = "done"]
    /\ UNCHANGED <<state, file, proc, mon, hpc, ev, attempted, cyc, cycFailed,
                   crashPoint, stored, spc, aliased, throughout>>

EmaNext == AddEma

EmaSpec == EmaInit /\ [][EmaNext]_vars

(* ============================ properties ============================== *)
LongState == [in_trade |-> TRUE, side |-> "BUY"]
ShortState == [in_trade |-> TRUE, side |-> "SELL"]

\* the entry conditions of the rule table, on the comparisons of a call
BuyCond(e) == e.ct > 0 /\ e.pe <= 0 /\ e.ce > 0
SellCond(e) == e.ct < 0 /\ e.pe >= 0 /\ e.ce < 0

\* evaluate_pair has just compared the prices of a frame: ev holds the
\* comparisons and the state it found, mon.todo the rule it took
SigKnown ==
    /\ proc = "up" /\ ev.fetch = "ok"
    /\ mon.pc = "side" \/ (mon.pc = "store" /\ mon.todo = "none")

\* inside a call of evaluate_pair that got a frame
InCall == proc = "up" /\ ev.fetch = "ok" /\ mon.pc \in {"side", "alert", "store", "dump"}

Position(ps) ==
    IF ~ps.in_trade THEN "Flat"
    ELSE IF ps.side = "BUY" THEN "Long"
    ELSE IF ps.side = "SELL" THEN "Short"
    ELSE "Entering"

\* the position of instrument p in the dict st while the monitoring thread
\* is at mn: between the two assignments of a rule it is on the move
PositionIn(st, mn, p) ==
    IF mn.pc = "side" /\ mn.pair = p /\ mn.live THEN "Moving"
    ELSE Position(st.per_pair[p])

\* C1: an evaluation of a Flat instrument takes the BUY rule exactly when
\* close > TrendEMA, prev <= EntryEMA and close > EntryEMA, and then makes
\* the instrument Long and sends "BUY NOW"; it takes the SELL rule exactly
\* on the mirrored condition, and then makes it Short and sends "SELL NOW";
\* in every other case (close = TrendEMA among them) it leaves the
\* instrument as it was and sends nothing.
C1_FlatEvaluation ==
    (InCall /\ ~ev.from.in_trade) =>
        /\ SigKnown =>
              mon.todo = (IF BuyCond(ev) THEN "BUY NOW"
                          ELSE IF SellCond(ev) THEN "SELL NOW" ELSE "none")
        /\ (SigKnown /\ ev.ct = 0) => mon.todo = "none"
        /\ (mon.todo = "BUY NOW" /\ mon.pc # "side") => mon.ps = LongState
        /\ (mon.todo = "SELL NOW" /\ mon.pc # "side") => mon.ps = ShortState
        /\ mon.todo = "none" => (mon.ps = ev.from /\ mon.pc # "alert")
        /\ mon.todo \in {"BUY NOW", "SELL NOW", "none"}
        /\ mon.live => state.per_pair[mon.pair] = mon.ps

\* a Flat instrument has become Long and "BUY NOW" is being sent
C1_Witness ==
    /\ InCall /\ ~ev.from.in_trade
    /\ mon.pc = "alert" /\ mon.todo = "BUY NOW" /\ mon.ps = LongState

\* C2 (as claimed): whatever close is against TrendEMA, a Long instrument
\* with prev >= EntryEMA and close < EntryEMA takes the EXIT BUY rule, and a
\* Short one with prev <= EntryEMA and close > EntryEMA the EXIT SELL rule.
C2_ExitWhateverTheTrend ==
    SigKnown =>
        /\ (ev.from = LongState /\ ev.pe >= 0 /\ ev.ce < 0) => mon.todo = "EXIT BUY"
        /\ (ev.from = ShortState /\ ev.pe <= 0 /\ ev.ce > 0) => mon.todo = "EXIT SELL"

\* C3: an entry (BUY NOW or SELL NOW) is only taken for an instrument that
\* is not in a trade; no step takes an instrument that is Long or Short
\* anywhere but to Flat (or into the two assignments of a rule), and the
\* assignments of an exit rule do not end in Long or Short.
C3_NoDoubleEntry ==
    [][ /\ (mon.pc = "call" /\ mon'.pc = "side"
               /\ mon'.todo \in {"BUY NOW", "SELL NOW"})
            => (mon.pair \in DOMAIN state.per_pair
                   => ~state.per_pair[mon.pair].in_trade)
        /\ \A p \in DOMAIN state.per_pair \cap DOMAIN state'.per_pair :
              /\ PositionIn(state, mon, p) \in {"Long", "Short"}
                    => PositionIn(state', mon', p)
                          \in {PositionIn(state, mon, p), "Flat", "Moving"}
              /\ (PositionIn(state, mon, p) = "Moving"
                     /\ mon.todo \in {"EXIT BUY", "EXIT SELL"})
                    => PositionIn(state', mon', p) \notin {"Long", "Short"}
      ]_vars

\* a Long instrument is evaluated on prices that meet the BUY condition,
\* and no rule is taken
C3_Witness ==
    SigKnown /\ ev.from = LongState /\ BuyCond(ev) /\ mon.todo = "none"

\* C4 (as claimed): in every document save_state has written, each
\* instrument has side null exactly when in_trade is false.
C4_SavedSideIffInTrade ==
    (file.status = "complete" /\ "per_pair" \in DOMAIN file.doc) =>
        \A p \in DOMAIN file.doc.per_pair :
            (file.doc.per_pair[p].side = "null") <=> ~file.doc.per_pair[p].in_trade

\* C5 (as claimed): a call of evaluate_pair that took a rule (and so sent
\* or tried to send an alert) has written the state file when it ends,
\* unless the write itself raised.
C5_AlertImpliesSaved ==
    (ev.done /\ ev.alert # "none" /\ ~ev.saveRaised) => ev.saved

\* C6: a call of evaluate_pair that ends, however it ends, leaves the
\* monitoring thread in the for loop at the next index; so a cycle during
\* which the watchlist did not change has called evaluate_pair on every
\* watched instrument, in order, when it is over.
C6_FailureDoesNotStopCycle ==
    /\ ev.done => (mon.pc = "iter" /\ mon.idx = Len(attempted))
    /\ (proc = "up" /\ mon.pc = "top" /\ cyc = "clean") => attempted = state.pairs

\* a cycle over two instruments is over, one call at least had failed
C6_Witness ==
    /\ proc = "up" /\ mon.pc = "top" /\ cyc = "clean" /\ cycFailed
    /\ Len(attempted) = 2

\* C7: the step of evaluate_pair in which the provider gives None or an
\* empty frame changes neither `state` nor the state file, takes no rule
\* and ends the call.
C7_NoDataNoEffect ==
    [][ (mon.pc = "call" /\ ev'.fetch \in {"None", "empty"})
           => /\ state' = state
              /\ file' = file
              /\ ev'.alert = "none" /\ ~ev'.delivered
              /\ ev'.done /\ mon'.pc = "iter"
      ]_vars

\* a call has ended on None or an empty frame
C7_Witness == proc = "up" /\ ev.done /\ ev.fetch \in {"None", "empty"}

\* C8 (as claimed): after a crash inside save_state the state file is one
\* load_state can read.
C8_CrashLeavesReadableFile == crashPoint = "in_save" => ~LoadRaises(file)

\* C9: load_state on a stored document gives every known key, with the
\* stored value where the document has one and the default where it has
\* none, and keeps the unknown key with its stored value; the save_state
\* that follows writes the unknown key as it was stored.
C9_LoadFillsAndKeeps ==
    /\ (spc \in {"loaded", "saved"} /\ Exists(stored)) =>
          /\ KnownKeys \subseteq DOMAIN state
          /\ \A k \in KnownKeys \ DOMAIN stored.doc : state[k] = default_state[k]
          /\ \A k \in DOMAIN stored.doc :
                k \in DOMAIN state /\ state[k] = JsonDecodeValue(k, stored.doc[k])
    /\ (spc = "saved" /\ Exists(stored) /\ ExtraKey \in DOMAIN stored.doc) =>
          /\ file.status = "complete"
          /\ ExtraKey \in DOMAIN file.doc
          /\ file.doc[ExtraKey] = stored.doc[ExtraKey]

\* a document with the unknown key and without "running" has been loaded
\* and saved
C9_Witness ==
    /\ spc = "saved" /\ Exists(stored)
    /\ ExtraKey \in DOMAIN stored.doc /\ "running" \notin DOMAIN stored.doc

\* C10: after load_state and save_state with nothing in between, the store
\* holds a complete document that load_state reads as it read the store
\* before, with every stored key and value as before; a document that had
\* every known key is the same document.
C10_RoundTrip ==
    spc = "saved" =>
        /\ file.status = "complete"
        /\ load_state(file) = load_state(stored)
        /\ \A k \in DOMAIN stored.doc :
              k \in DOMAIN file.doc /\ file.doc[k] = stored.doc[k]
        /\ KnownKeys \subseteq DOMAIN stored.doc => file.doc = stored.doc

\* the round trip was made on an absent store
C10_Witness == spc = "saved" /\ ~Exists(stored)

\* C11 (as claimed): load_state on an absent store returns the compiled-in
\* defaults, with an empty per_pair, running false and no chat id, and
\* leaves the module-level default_state as it was compiled in.
C11_AbsentStoreDefaults ==
    (spc = "loaded" /\ ~Exists(stored)) =>
        /\ state.per_pair = EmptyDict
        /\ state.running = FALSE
        /\ state[DEFAULT_CHAT_ID_KEY] = "None"
        /\ default_state_now = default_state

\* C12 (as claimed): whatever commands have been given, trend_ema and
\* entry_exit_ema in `state` are at least 1, so that add_ema, which is
\* called with them, never gets a period below 1.
C12_PeriodsPositive ==
    /\ state.trend_ema >= 1 /\ ~AddEmaRaises(state.trend_ema)
    /\ state.entry_exit_ema >= 1 /\ ~AddEmaRaises(state.entry_exit_ema)

\* greatest common divisor of two naturals, not both 0
RECURSIVE Gcd(_, _)
Gcd(a, b) == IF b = 0 THEN a ELSE Gcd(b, a % b)

\* a fraction with a positive denominator, in lowest terms
Lowest(x) ==
    LET g == Gcd(IF x.num < 0 THEN -x.num ELSE x.num, x.den)
    IN  [num |-> x.num \div g, den |-> x.den \div g]

\* close * k + value * (1 - k) with k = 2/(p+1), for a fraction value
Blend(close, value, p) ==
    [num |-> 2 * close * value.den + (p - 1) * value.num,
     den |-> (p + 1) * value.den]

\* C13: for a period p >= 1 and a frame with bars, the column add_ema adds
\* is as long as the frame, its first value is the first close, and each
\* later value is close[i]*k + value[i-1]*(1-k) with k = 2/(p+1).
C13_EmaRecurrence ==
    (df.pc = "done" /\ df.period >= 1 /\ Len(df.Close) >= 1) =>
        /\ Len(df.EMA) = Len(df.Close)
        /\ Lowest(df.EMA[1]) = [num |-> df.Close[1], den |-> 1]
        /\ \A i \in 2..Len(df.Close) :
              /\ df.EMA[i].den > 0
              /\ Lowest(df.EMA[i]) = Lowest(Blend(df.Close[i], df.EMA[i - 1], df.period))

\* add_ema has been applied with the trend period to a frame of the
\* greatest length whose closes are not all the same
C13_Witness ==
    /\ df.pc = "done" /\ df.period = TREND_EMA /\ Len(df.Close) = MaxBars
    /\ \E i \in 2..Len(df.Close) : df.Close[i] # df.Close[i - 1]

\* C14 (as claimed): when the for loop of a cycle is over, every instrument
\* that was in state["pairs"] at every moment of the loop has been
\* evaluated in it, and no instrument has been evaluated in it twice (as
\* they would be if the loop went over the watchlist of one instant).
C14_ConsistentSnapshot ==
    (proc = "up" /\ mon.pc = "top" /\ cyc # "none") =>
        /\ throughout \subseteq Members(attempted)
        /\ \A i, j \in 1..Len(attempted) :
              attempted[i] = attempted[j] => i = j

\* C15 (as claimed): once state["running"] is false, the for loop of a
\* cycle under way does not go on to a further instrument (whose
\* evaluation begins with the call of fetch_ohlc_fx), and no call of
\* fetch_ohlc_fx begins.
C15_StopObserved ==
    [][ ~state.running =>
           /\ ~(mon.pc = "iter" /\ mon.idx >= 1 /\ mon'.pc = "call")
           /\ ~(mon.pc = "call" /\ mon.idx >= 2 /\ mon'.pc # "call")
      ]_vars

\* C16 (as claimed): when no call of evaluate_pair and no handler is under
\* way, state["per_pair"] has entries only for instruments that are on the
\* watchlist, and so has the document in the state file.
C16_RemovedHasNoState ==
    (proc = "up" /\ mon.pc \in {"top", "iter"} /\ hpc = "idle") =>
        /\ DOMAIN state.per_pair \subseteq Members(state.pairs)
        /\ file.status = "complete" =>
              DOMAIN file.doc.per_pair \subseteq Members(file.doc.pairs)

\* C17 (as claimed): the monitoring thread and the dispatcher thread are
\* never both inside save_state, between its open() and the end of its
\* json.dump, and the state file never holds the text of one dump followed
\* by the rest of another.
C17_SingleWriter ==
    /\ ~(proc = "up" /\ mon.pc = "dump" /\ hpc = "dump")
    /\ file.status # "garbled"

\* C18: a call of evaluate_pair takes at most one rule.  If it takes one,
\* the instrument's state after the two assignments is the one state the
\* rule leads to, in another position than before, and the call goes
\* through the sending of one alert; if it takes none, the instrument's
\* state is as it was found and nothing is sent.
C18_OneTransitionOneAlert ==
    /\ InCall =>
          /\ mon.todo = ev.alert
          /\ mon.todo = "none" =>
                /\ mon.pc \in {"store", "dump"}
                /\ mon.ps = ev.from
                /\ ~ev.delivered
          /\ (mon.todo # "none" /\ mon.pc # "side") =>
                /\ mon.ps = (IF mon.todo = "BUY NOW" THEN LongState
                             ELSE IF mon.todo = "SELL NOW" THEN ShortState
                             ELSE NewPairState)
                /\ Position(mon.ps) # Position(ev.from)
          /\ (mon.todo # "none" /\ mon.pc \in {"store", "dump"}) => ev.delivered
    /\ ev.done =>
          /\ ev.alert = "none" => ~ev.delivered
          /\ ev.alert # "none" =>
                (ev.delivered \/ (~ev.saved /\ ~ev.saveRaised))

\* a Short instrument has left its trade and "EXIT SELL" has been sent
C18_Witness ==
    /\ InCall /\ mon.pc = "store" /\ mon.todo = "EXIT SELL"
    /\ ev.from = ShortState /\ ev.delivered

\* C19: on a frame of one bar evaluate_pair takes the latest close as the
\* previous close too, takes no rule, leaves the instrument's state as it
\* found it and goes on to the store without sending anything.
C19_SingleBar ==
    (SigKnown /\ ev.single) =>
        /\ ev.pe = ev.ce
        /\ mon.todo = "none" /\ ev.alert = "none"
        /\ mon.ps = ev.from
        /\ mon.pc = "store" /\ ~ev.delivered

\* an instrument in a trade has been evaluated on a frame of one bar
C19_Witness == SigKnown /\ ev.single /\ ev.from = LongState

=============================================================================
